---- MODULE Spec2Model ----
(***************************************************************************)
(* Content rendering (NotesIndexManager, UpdatesManager), math rendering   *)
(* start-up (LaTeXRenderer, latex-config.js), page-load start-up, the      *)
(* theme switcher, the copy button and contact form, and Utils.debounce    *)
(* and Utils.throttle of the site's client-side scripts, as state          *)
(* machines.                                                               *)
(*                                                                         *)
(* A JavaScript object is a TLA+ record; a field the object lacks is a     *)
(* field the record lacks.  A JavaScript array is a sequence.  A DOM       *)
(* container is the sequence of its children; a child is a record.  One    *)
(* action is one call of a method, or one browser task together with the   *)
(* microtasks it leaves behind.                                            *)
(***************************************************************************)
EXTENDS Integers, Sequences, FiniteSets, TLC

VARIABLES
    realNotes,      \* NotesIndexManager.realNotes: key -> array of records
    updates,        \* UpdatesManager.updates
    loadedNotes,    \* realNotes as the constructor's literal set it
    loadedUpdates,  \* updates as the constructor's literal set it
    doc,            \* the selectors of the containers the page holds
    areasGrid,      \* children of .areas-grid
    timeline,       \* children of .notes-timeline
    heroSubtitle,   \* textContent of .hero-subtitle
    updatesGrid,    \* children of .updates-grid
    console,        \* console entries written by the last call
    threw,          \* the last call ended with an uncaught exception
    lastCall,       \* the method called last
    repeated,       \* the call before it was a call of the same method
    nAdds,          \* calls of addNote and addUpdate so far
    katexDefined,   \* typeof katex !== 'undefined'
    rmieDefined,    \* typeof renderMathInElement !== 'undefined'
    configLoaded,   \* the page loads config/latex-config.js (autoRenderOptions is defined)
    constructed,    \* new LaTeXRenderer() has run
    isKaTeXReady,   \* LaTeXRenderer.isKaTeXReady
    renderQueue,    \* LaTeXRenderer.renderQueue
    pendingChecks,  \* setTimeout(checkKaTeX, 100) timers not yet fired
    pollCount,      \* runs of checkKaTeX so far, counted up to MaxPolls
    resolvedWith,   \* what the run of checkKaTeX that resolved the wait saw
    renderCalls,    \* the calls of renderMathInElement, in order
    domLoaded,      \* DOMContentLoaded has fired
    configInit,     \* how initializeKaTeX ended
    latexLog,       \* console entries written by the last task
    readyState,     \* document.readyState
    dclFired,       \* DOMContentLoaded has been dispatched to the document's listeners
    evaluated,      \* the scripts evaluated so far
    dclListeners,   \* the DOMContentLoaded listeners registered so far
    runs,           \* how often each start-up routine has run
    isInitialized,  \* App.isInitialized
    latexClass,     \* typeof LaTeXRenderer !== 'undefined' when startApp runs
    currentTheme,   \* ThemeSwitcher.currentTheme
    lsTheme,        \* localStorage.getItem('theme'), "none" for null
    lsManual,       \* localStorage.getItem('theme-manual') is set
    storageFails,   \* localStorage.setItem throws (quota, private mode)
    systemDark,     \* matchMedia('(prefers-color-scheme: dark)').matches
    themeReady,     \* ThemeSwitcher.init() has run
    toggleInPage,   \* the page holds a .theme-toggle element
    toggleButton,   \* ThemeSwitcher.toggleButton is not null
    schemeListener, \* the 'change' listener of prefersDark is registered
    dataTheme,      \* the data-theme attribute of the document element
    buttonIcon,     \* innerHTML of the toggle button
    themeOp,        \* the last theme operation: what it was and how it ended
    manualChange,   \* the user has changed the theme by a manual route
    switching,      \* the toggle button carries the class theme-switching
    animTimers,     \* setTimeout(..., 300) timers of addToggleAnimation not yet fired
    copyText,       \* textContent of the .code-copy-btn button
    copied,         \* the button carries the class copied
    clipboardPending, \* navigator.clipboard.writeText promises not yet settled
    copyTimers,     \* pending 2 s timers: the text each writes to the button
    submitText,     \* textContent of the contact form's submit button
    submitDisabled, \* its disabled flag
    formWaits,      \* suspended handleContactForm calls: the originalText of each
    formMessage,    \* the .form-message element of the form, 0 for none
    messageTimers,  \* pending 5 s timers: the message element each removes
    nSubmits,       \* submissions so far
    now,            \* the time, in ticks
    dTimers,        \* pending timers set by the debounced function
    timeout,        \* debounce's closure variable timeout: the id set last
    dCalls,         \* calls of the debounced function so far
    dLastCall,      \* time and argument of its last call
    dBursts,        \* bursts of calls begun so far
    dRunLog,        \* the runs of func under debounce
    inThrottle,     \* throttle's closure variable inThrottle
    tTimers,        \* pending timers set by the throttled function
    tLog,           \* the calls of the throttled function: when, and whether func ran
    tRuns           \* executions of func under throttle

contentVars == <<realNotes, updates, loadedNotes, loadedUpdates, doc, areasGrid,
                 timeline, heroSubtitle, updatesGrid, console, threw, lastCall,
                 repeated, nAdds>>

latexVars == <<katexDefined, rmieDefined, configLoaded, constructed, isKaTeXReady,
               renderQueue, pendingChecks, pollCount, resolvedWith, renderCalls,
               domLoaded, configInit, latexLog>>

loadVars == <<readyState, dclFired, evaluated, dclListeners, runs, isInitialized, latexClass>>

themeVars == <<currentTheme, lsTheme, lsManual, storageFails, systemDark, themeReady,
               toggleInPage, toggleButton, schemeListener, dataTheme, buttonIcon,
               themeOp, manualChange, switching, animTimers>>

asyncVars == <<copyText, copied, clipboardPending, copyTimers, submitText,
               submitDisabled, formWaits, formMessage, messageTimers, nSubmits>>

timerVars == <<now, dTimers, timeout, dCalls, dLastCall, dBursts, dRunLog,
               inThrottle, tTimers, tLog, tRuns>>

\* what the content and math scripts leave alone
pageVars == <<loadVars, themeVars, asyncVars, timerVars>>

----------------------------------------------------------------------------
(* Bounds *)

\* calls of addNote and addUpdate in one session
MaxAdds == 1
\* elements waiting in renderQueue
MaxQueue == 2
\* calls of renderMathInElement after which no further element is handed over
MaxCalls == 3
\* runs of checkKaTeX that are counted
MaxPolls == 3
\* calls of addUpdate in one session of the updates list
MaxUpdateAdds == 3
\* toggle animations whose timers are pending at once
MaxAnim == 2
\* copy clicks whose promise or timer is pending at once
MaxCopies == 2
\* submissions of the contact form
MaxSubmits == 2
\* the last tick of the clock
MaxTime == 6
\* wait of the debounced function and limit of the throttled one, in ticks
DebounceWait == 2
ThrottleLimit == 2
\* calls of the debounced and of the throttled function
MaxDebounced == 3
MaxThrottled == 3

----------------------------------------------------------------------------
(* JavaScript values *)

\* `${o.f}`: a missing field interpolates as the text "undefined"
Get(o, f) == IF f \in DOMAIN o THEN o[f] ELSE "undefined"

\* null (the literal's `link: null`)
Null == "<null>"

\* a string-valued field in a condition: undefined, null and '' are falsy
TruthyStr(o, f) == f \in DOMAIN o /\ o[f] # Null /\ o[f] # ""

\* a boolean-valued field in a condition: undefined is falsy
TruthyBool(o, f) == f \in DOMAIN o /\ o[f]

Min(a, b) == IF a < b THEN a ELSE b
Max(a, b) == IF a > b THEN a ELSE b

\* Array.prototype.slice(0, end): a negative end counts from the array's end
Slice0(s, end) ==
    LET e == IF end < 0 THEN Max(Len(s) + end, 0) ELSE Min(end, Len(s))
    IN  SubSeq(s, 1, e)

Warn(m) == [level |-> "warn", msg |-> m]
Log(m) == [level |-> "log", msg |-> m]

----------------------------------------------------------------------------
(* NotesIndexManager: constructor *)

LiteralNotes ==
    [k \in {"physics", "physics-topics", "mathematics", "computer-science",
            "computer-science-topics"} |->
        CASE k = "physics" ->
               << [file |-> "classical-mechanics.html", title |-> "Classical Mechanics", featured |-> TRUE],
                  [file |-> "quantum-mechanics.html", title |-> "Quantum Mechanics", featured |-> FALSE],
                  [file |-> "advanced-mathematical-methods.html", title |-> "Advanced Mathematical Methods", featured |-> FALSE] >>
          [] k = "physics-topics" ->
               << [topic |-> "plasma-physics", name |-> "Plasma Physics", notes |-> <<"lawson-criterion.html">>] >>
          [] k = "mathematics" ->
               << [file |-> "special-functions.html", title |-> "Special Functions", featured |-> TRUE] >>
          [] k = "computer-science" ->
               << [file |-> "classic-information.html", title |-> "Classic Information", featured |-> FALSE],
                  [file |-> "quantum-information.html", title |-> "Quantum Information", featured |-> TRUE],
                  [file |-> "quantum-computation.html", title |-> "Quantum Computation", featured |-> TRUE] >>
          [] OTHER ->
               << [topic |-> "generative-ai", name |-> "Generative AI", notes |-> <<"transformer-architectures.html">>] >>]

\* Object.entries(this.areas), in insertion order
AreaKeys == <<"physics", "mathematics", "computer-science">>

Areas ==
    [k \in {"physics", "mathematics", "computer-science"} |->
        CASE k = "physics" -> [name |-> "Physics", className |-> "physics-area"]
          [] k = "mathematics" -> [name |-> "Mathematics", className |-> "mathematics-area"]
          [] OTHER -> [name |-> "Computer Science", className |-> "cs-area"]]

\* this.realNotes[key] || []
NotesOf(store, key) == IF key \in DOMAIN store THEN store[key] ELSE <<>>

----------------------------------------------------------------------------
(* NotesIndexManager.createAreaCard *)

\* topicNotes.reduce((sum, topic) => sum + topic.notes.length, 0)
RECURSIVE SumTopicNotes(_)
SumTopicNotes(topics) ==
    IF topics = <<>> THEN 0
    ELSE Len(Head(topics).notes) + SumTopicNotes(Tail(topics))

\* topic.notes.length throws a TypeError when topic.notes is undefined
TopicNotesThrows(topics) ==
    \E i \in 1..Len(topics) : "notes" \notin DOMAIN topics[i]

CreateAreaCardThrows(areaKey, store) ==
    TopicNotesThrows(NotesOf(store, areaKey \o "-topics"))

AreaTotalNotes(areaKey, store) ==
    Len(NotesOf(store, areaKey)) + SumTopicNotes(NotesOf(store, areaKey \o "-topics"))

\* Math.min(Math.round((totalNotes / 10) * 100), 100)
CompletionPercentage(totalNotes) == Min(totalNotes * 10, 100)

TopicEntry(areaKey, topic) ==
    [name |-> Get(topic, "name"),
     path |-> areaKey \o "/" \o Get(topic, "topic") \o "/",
     notesCount |-> Len(topic.notes),
     featured |-> TRUE]

\* mutant: the path of a direct note lacks its area folder
NoteEntryNoArea(areaKey, note) ==
    [name |-> Get(note, "title"),
     path |-> Get(note, "file"),
     notesCount |-> 1,
     featured |-> TruthyBool(note, "featured")]

NoteEntry(areaKey, note) ==
    [name |-> Get(note, "title"),
     path |-> areaKey \o "/" \o Get(note, "file"),
     notesCount |-> 1,
     featured |-> TruthyBool(note, "featured")]

\* 4 - topicsToShow.length
RemainingSlots(nTopics) == 4 - nTopics

TopicsToShow(areaKey, store) ==
    LET directNotes == NotesOf(store, areaKey)
        topicNotes == NotesOf(store, areaKey \o "-topics")
        folders == [i \in 1..Len(topicNotes) |-> TopicEntry(areaKey, topicNotes[i])]
        shown == Slice0(directNotes, RemainingSlots(Len(folders)))
    IN  folders \o [i \in 1..Len(shown) |-> NoteEntry(areaKey, shown[i])]

\* one <a class="topic-chip ..."> of the topics-list template
TopicChip(entry, index) ==
    [tag |-> "a",
     href |-> entry.path,
     class |-> "topic-chip " \o (IF entry.featured /\ index = 0 THEN "featured" ELSE ""),
     topicName |-> entry.name,
     topicCount |-> entry.notesCount]

\* the <a class="explore-btn"> of the area-action block
ExploreBtn(areaKey) ==
    [tag |-> "a",
     href |-> areaKey \o "/",
     class |-> "explore-btn",
     text |-> "Explore " \o Areas[areaKey].name]

\* mutant: an area with nothing to show gets a placeholder chip
CardChipsPlaceholder(areaKey, store) ==
    LET show == TopicsToShow(areaKey, store)
    IN  IF show = <<>>
        THEN <<TopicChip([name |-> "Coming soon", path |-> areaKey \o "/", notesCount |-> 0,
                          featured |-> FALSE], 0)>>
        ELSE [i \in 1..Len(show) |-> TopicChip(show[i], i - 1)]

CardChips(areaKey, store) ==
    LET show == TopicsToShow(areaKey, store)
    IN  [i \in 1..Len(show) |-> TopicChip(show[i], i - 1)]

CreateAreaCard(areaKey, store) ==
    [classes |-> {"knowledge-area", Areas[areaKey].className},
     dataArea |-> areaKey,
     name |-> Areas[areaKey].name,
     notesCount |-> AreaTotalNotes(areaKey, store),
     width |-> CompletionPercentage(AreaTotalNotes(areaKey, store)),
     header |-> IF Len(NotesOf(store, areaKey \o "-topics")) > 0 THEN "Topics" ELSE "Recent Notes",
     chips |-> CardChips(areaKey, store),
     explore |-> ExploreBtn(areaKey)]

\* the <a> elements of a card, in document order
CardLinks(card) == card.chips \o <<card.explore>>

----------------------------------------------------------------------------
(* NotesIndexManager.updateAreaCards *)

\* '.knowledge-area:not(.quick-actions-area)'
IsAreaCard(node) ==
    "knowledge-area" \in node.classes /\ "quick-actions-area" \notin node.classes

\* '.quick-actions-area'
IsQuickActions(node) == "quick-actions-area" \in node.classes

\* mutant: the existing cards are not cleared before the new ones are added
RemoveCardsKeepsAll(grid) == grid

\* existingCards.forEach(card => card.remove())
RemoveCards(grid) == SelectSeq(grid, LAMBDA n : ~IsAreaCard(n))

\* insertBefore(card, quickActions) when the grid holds one, else appendChild(card)
InsertCard(grid, card) ==
    IF \E i \in 1..Len(grid) : IsQuickActions(grid[i])
    THEN LET q == CHOOSE i \in 1..Len(grid) :
                    /\ IsQuickActions(grid[i])
                    /\ \A j \in 1..(i - 1) : ~IsQuickActions(grid[j])
         IN  SubSeq(grid, 1, q - 1) \o <<card>> \o SubSeq(grid, q, Len(grid))
    ELSE Append(grid, card)

\* the for loop over Object.entries(this.areas), from the i-th area on; a
\* throwing createAreaCard leaves the cards inserted so far
RECURSIVE AddCards(_, _, _)
AddCards(grid, store, i) ==
    IF i > Len(AreaKeys) THEN [grid |-> grid, threw |-> FALSE]
    ELSE IF CreateAreaCardThrows(AreaKeys[i], store) THEN [grid |-> grid, threw |-> TRUE]
    ELSE AddCards(InsertCard(grid, CreateAreaCard(AreaKeys[i], store)), store, i + 1)

\* the whole method: what it leaves in the grid, whether it threw, what it logged
AreaCardsEffect(d, grid, store) ==
    IF ".areas-grid" \notin d
    THEN [grid |-> grid, threw |-> FALSE, log |-> <<Warn("Areas grid not found")>>]
    ELSE LET r == AddCards(RemoveCards(grid), store, 1)
         IN  [grid |-> r.grid, threw |-> r.threw, log |-> <<>>]

----------------------------------------------------------------------------
(* NotesIndexManager.updateRecentNotes *)

RecentNotesData ==
    << [title |-> "Transformer Architectures",
        path |-> "computer-science/generative-ai/transformer-architectures.html",
        area |-> "Computer Science", areaClass |-> "cs", date |-> "June 19, 2025",
        tags |-> <<"Transformers", "Attention Mechanism", "PyTorch">>],
       [title |-> "Quantum Computation",
        path |-> "computer-science/quantum-computation.html",
        area |-> "Computer Science", areaClass |-> "cs", date |-> "June 19, 2025",
        tags |-> <<"Quantum Computing", "Quantum Algorithms", "NISQ">>],
       [title |-> "Quantum Information Theory",
        path |-> "computer-science/quantum-information.html",
        area |-> "Computer Science", areaClass |-> "cs", date |-> "June 19, 2025",
        tags |-> <<"Quantum Information", "Qubits", "Entanglement">>] >>

\* one <article class="note-card">
NoteCard(note) ==
    [class |-> "note-card",
     link |-> [tag |-> "a", href |-> note.path, text |-> note.title],
     area |-> note.area, areaClass |-> note.areaClass, date |-> note.date,
     tags |-> note.tags]

RecentNotesEffect(d, tl) ==
    IF ".notes-timeline" \notin d
    THEN [timeline |-> tl, log |-> <<Warn("Timeline container not found")>>]
    ELSE [timeline |-> [i \in 1..Len(RecentNotesData) |-> NoteCard(RecentNotesData[i])],
          log |-> <<>>]

----------------------------------------------------------------------------
(* NotesIndexManager.updateQuickStats *)

\* Array.isArray(notes): every value of realNotes is built by an array
\* literal (the constructor) or by [] (addNote), so a sequence is an array
IsArray(notes) == DOMAIN notes = 1..Len(notes)

\* mutant: the reducer counts categories, not their records
StatsStepCountsCategory(notes) == 1

\* the reducer's step for one value of realNotes
StatsStep(notes) ==
    IF IsArray(notes) THEN Len(notes) ELSE SumTopicNotes(notes)

\* Object.values(this.realNotes).reduce(..., 0)
RECURSIVE SumOver(_, _)
SumOver(store, keys) ==
    IF keys = {} THEN 0
    ELSE LET k == CHOOSE x \in keys : TRUE
         IN  StatsStep(store[k]) + SumOver(store, keys \ {k})

QuickStatsTotal(store) == SumOver(store, DOMAIN store)

\* Object.keys(this.areas).length
AreaCount == Len(AreaKeys)

StatsText(total) ==
    ToString(total) \o " technical notes across " \o ToString(AreaCount) \o
    " knowledge areas, with LaTeX support for equations and diagrams"

StatsLog(total) ==
    Log("Real stats: " \o ToString(total) \o " notes, " \o ToString(AreaCount) \o " areas")

QuickStatsEffect(d, hero, store) ==
    [hero |-> IF ".hero-subtitle" \in d THEN StatsText(QuickStatsTotal(store)) ELSE hero,
     log |-> <<StatsLog(QuickStatsTotal(store))>>]

----------------------------------------------------------------------------
(* UpdatesManager *)

LiteralUpdates ==
    << [date |-> "2025-07", type |-> "Project",
        title |-> "Enhanced website features and SEO optimization", link |-> Null],
       [date |-> "2025-06", type |-> "Note",
        title |-> "LaTeX integration for math rendering", link |-> "pages/notes/index.html"],
       [date |-> "2025-06", type |-> "Project",
        title |-> "Personal website development", link |-> "pages/projects/index.html"],
       [date |-> "2025-05", type |-> "Research",
        title |-> "New computational modeling experiments", link |-> "pages/projects/research.html"],
       [date |-> "2025-05", type |-> "Note",
        title |-> "Quantum Information Theory documentation",
        link |-> "pages/notes/computer-science/quantum-information.html"] >>

\* mutant: the last four of the list, slice(-4)
RecentUpdatesOldest(ups) == SubSeq(ups, Max(1, Len(ups) - 3), Len(ups))

\* this.updates.slice(0, 4)
RecentUpdates(ups) == Slice0(ups, 4)

\* one <div class="update-item">; links holds the <a> of the title, if any
UpdateItem(update) ==
    [class |-> "update-item",
     date |-> Get(update, "date"),
     type |-> Get(update, "type"),
     title |-> Get(update, "title"),
     links |-> IF TruthyStr(update, "link")
               THEN << [tag |-> "a", href |-> update.link, text |-> Get(update, "title")] >>
               ELSE << >>]

\* UpdatesManager.render
UpdatesRenderEffect(d, grid, ups) ==
    IF ".updates-grid" \notin d
    THEN [grid |-> grid, log |-> <<>>]
    ELSE [grid |-> [i \in 1..Len(RecentUpdates(ups)) |-> UpdateItem(RecentUpdates(ups)[i])],
          log |-> <<>>]

\* mutant: push in place of unshift
UnshiftAsPush(ups, update) == Append(ups, update)

\* this.updates.unshift(update)
Unshift(ups, update) == <<update>> \o ups

----------------------------------------------------------------------------
(* NotesIndexManager.init and addNote: what the whole call leaves behind *)

InitEffect(d, grid, tl, hero, store) ==
    LET a == AreaCardsEffect(d, grid, store)
        r == RecentNotesEffect(d, tl)
        q == QuickStatsEffect(d, hero, store)
        hello == <<Log("Initializing simplified notes index...")>>
    IN  IF a.threw
        THEN [grid |-> a.grid, timeline |-> tl, hero |-> hero, threw |-> TRUE,
              log |-> hello \o a.log]
        ELSE [grid |-> a.grid, timeline |-> r.timeline, hero |-> q.hero, threw |-> FALSE,
              log |-> hello \o a.log \o r.log \o q.log \o
                      <<Log("Notes index updated successfully")>>]

\* if (!this.realNotes[area]) this.realNotes[area] = []; this.realNotes[area].push(noteData)
PushNote(store, area, noteData) ==
    [k \in DOMAIN store \cup {area} |->
        IF k = area THEN Append(NotesOf(store, area), noteData) ELSE store[k]]

AddNoteEffect(d, grid, hero, store, area, noteData) ==
    LET s == PushNote(store, area, noteData)
        a == AreaCardsEffect(d, grid, s)
        q == QuickStatsEffect(d, hero, s)
    IN  IF a.threw
        THEN [store |-> s, grid |-> a.grid, hero |-> hero, threw |-> TRUE, log |-> a.log]
        ELSE [store |-> s, grid |-> a.grid, hero |-> q.hero, threw |-> FALSE,
              log |-> a.log \o q.log \o
                      <<Log("Added note: " \o Get(noteData, "title") \o " to " \o area)>>]

----------------------------------------------------------------------------
(* LaTeXRenderer and config/latex-config.js *)

NotResolved == [resolved |-> FALSE, katex |-> FALSE, rmie |-> FALSE]

\* mutant: the wait resolves on katex alone
LibraryAvailableKatexOnly(katex, rmie) == katex

\* typeof katex !== 'undefined' && typeof renderMathInElement !== 'undefined'
LibraryAvailable(katex, rmie) == katex /\ rmie

\* if (!this.isKaTeXReady): the element is queued, not rendered
ShouldQueue(ready) == ~ready

\* mutant: a failed check is not retried
RescheduleNever(available) == 0

\* the else branch of checkKaTeX: setTimeout(checkKaTeX, 100)
Reschedule(available) == IF available THEN 0 ELSE 1

\* one call renderMathInElement(element, options)
RmieCall(by, element, cfg, ready) ==
    [by |-> by, element |-> element,
     options |-> IF cfg THEN "autoRenderOptions" ELSE "fallback",
     ready |-> ready]

\* LaTeXRenderer.renderMath(element)
RenderMathEffect(ready, queue, calls, cfg, element) ==
    IF ShouldQueue(ready)
    THEN [queue |-> Append(queue, element), calls |-> calls]
    ELSE [queue |-> queue,
          calls |-> Append(calls, RmieCall("LaTeXRenderer", element, cfg, ready))]

\* mutant: the queue is drained from its end (pop instead of shift)
RECURSIVE ProcessQueueLifo(_, _, _)
ProcessQueueLifo(queue, calls, cfg) ==
    IF queue = <<>> THEN [queue |-> queue, calls |-> calls]
    ELSE LET r == RenderMathEffect(TRUE, SubSeq(queue, 1, Len(queue) - 1), calls, cfg,
                                   queue[Len(queue)])
         IN  ProcessQueueLifo(r.queue, r.calls, cfg)

\* LaTeXRenderer.processQueue, run with isKaTeXReady true
RECURSIVE ProcessQueue(_, _, _)
ProcessQueue(queue, calls, cfg) ==
    IF queue = <<>> THEN [queue |-> queue, calls |-> calls]
    ELSE LET r == RenderMathEffect(TRUE, Tail(queue), calls, cfg, Head(queue))
         IN  ProcessQueue(r.queue, r.calls, cfg)

\* init() after the await: isKaTeXReady = true, processQueue(), and
\* setupAutoRender()'s renderMath(document.body)
AfterWait(queue, calls, cfg) ==
    LET p == ProcessQueue(queue, calls, cfg)
    IN  RenderMathEffect(TRUE, p.queue, p.calls, cfg, "document.body")

\* one run of checkKaTeX with the microtask that resumes init() when it resolves
CheckKaTeX(pending) ==
    LET available == LibraryAvailable(katexDefined, rmieDefined)
    IN  /\ pollCount' = Min(pollCount + 1, MaxPolls)
        /\ pendingChecks' = pending + Reschedule(available)
        /\ IF available
           THEN LET r == AfterWait(renderQueue, renderCalls, configLoaded)
                IN  /\ isKaTeXReady' = TRUE
                    /\ resolvedWith' = [resolved |-> TRUE, katex |-> katexDefined, rmie |-> rmieDefined]
                    /\ renderQueue' = r.queue
                    /\ renderCalls' = r.calls
           ELSE UNCHANGED <<isKaTeXReady, resolvedWith, renderQueue, renderCalls>>

\* the elements other scripts and the mutation observers hand over
Elements == {"#note", "#figure"}

LatexStart(cfg) ==
    /\ katexDefined = FALSE
    /\ rmieDefined = FALSE
    /\ configLoaded = cfg
    /\ constructed = FALSE
    /\ isKaTeXReady = FALSE
    /\ renderQueue = <<>>
    /\ pendingChecks = 0
    /\ pollCount = 0
    /\ resolvedWith = NotResolved
    /\ renderCalls = <<>>
    /\ domLoaded = FALSE
    /\ configInit = "pending"
    /\ latexLog = <<>>

\* the katex script is evaluated
LoadKaTeX ==
    /\ ~katexDefined
    /\ katexDefined' = TRUE
    /\ latexLog' = <<>>
    /\ UNCHANGED <<rmieDefined, configLoaded, constructed, isKaTeXReady, renderQueue,
                   pendingChecks, pollCount, resolvedWith, renderCalls, domLoaded, configInit>>
    /\ UNCHANGED <<contentVars, pageVars>>

\* the auto-render script is evaluated
LoadAutoRender ==
    /\ ~rmieDefined
    /\ rmieDefined' = TRUE
    /\ latexLog' = <<>>
    /\ UNCHANGED <<katexDefined, configLoaded, constructed, isKaTeXReady, renderQueue,
                   pendingChecks, pollCount, resolvedWith, renderCalls, domLoaded, configInit>>
    /\ UNCHANGED <<contentVars, pageVars>>

\* const latexRenderer = new LaTeXRenderer(): the constructor calls init(),
\* which runs checkKaTeX once
Construct ==
    /\ ~constructed
    /\ constructed' = TRUE
    /\ CheckKaTeX(0)
    /\ latexLog' = <<>>
    /\ UNCHANGED <<katexDefined, rmieDefined, configLoaded, domLoaded, configInit>>
    /\ UNCHANGED <<contentVars, pageVars>>

\* a setTimeout(checkKaTeX, 100) timer fires
Poll ==
    /\ pendingChecks > 0
    /\ CheckKaTeX(pendingChecks - 1)
    /\ latexLog' = <<>>
    /\ UNCHANGED <<katexDefined, rmieDefined, configLoaded, constructed, domLoaded, configInit>>
    /\ UNCHANGED <<contentVars, pageVars>>

\* latexRenderer.renderMath(element), from renderContainer, another script
\* or the observer of setupAutoRender
RenderMath ==
    /\ constructed
    /\ IF isKaTeXReady THEN Len(renderCalls) < MaxCalls ELSE Len(renderQueue) < MaxQueue
    /\ \E element \in Elements :
        LET r == RenderMathEffect(isKaTeXReady, renderQueue, renderCalls, configLoaded, element)
        IN  /\ renderQueue' = r.queue
            /\ renderCalls' = r.calls
    /\ latexLog' = <<>>
    /\ UNCHANGED <<katexDefined, rmieDefined, configLoaded, constructed, isKaTeXReady,
                   pendingChecks, pollCount, resolvedWith, domLoaded, configInit>>
    /\ UNCHANGED <<contentVars, pageVars>>

\* DOMContentLoaded fires: initializeKaTeX, when latex-config.js is on the page
DOMContentLoaded ==
    /\ ~domLoaded
    /\ domLoaded' = TRUE
    /\ IF ~configLoaded
       THEN UNCHANGED <<renderCalls, configInit>> /\ latexLog' = <<>>
       ELSE IF rmieDefined
       THEN /\ renderCalls' = Append(renderCalls,
                                     RmieCall("initializeKaTeX", "document.body", TRUE, isKaTeXReady))
            /\ configInit' = "initialized"
            /\ latexLog' = <<Log("KaTeX initialized successfully")>>
       ELSE /\ UNCHANGED renderCalls
            /\ configInit' = "unavailable"
            /\ latexLog' = <<Warn("KaTeX auto-render not available")>>
    /\ UNCHANGED <<katexDefined, rmieDefined, configLoaded, constructed, isKaTeXReady,
                   renderQueue, pendingChecks, pollCount, resolvedWith>>
    /\ UNCHANGED <<contentVars, pageVars>>

\* the observer of setupMathObserver renders an added element
MathObserver ==
    /\ configInit = "initialized"
    /\ Len(renderCalls) < MaxCalls
    /\ \E element \in Elements :
        renderCalls' = Append(renderCalls, RmieCall("mathObserver", element, TRUE, isKaTeXReady))
    /\ latexLog' = <<>>
    /\ UNCHANGED <<katexDefined, rmieDefined, configLoaded, constructed, isKaTeXReady,
                   renderQueue, pendingChecks, pollCount, resolvedWith, domLoaded, configInit>>
    /\ UNCHANGED <<contentVars, pageVars>>

----------------------------------------------------------------------------
(* ThemeSwitcher *)

Themes == {"light", "dark"}

\* const icons = { light: moon, dark: sun }
Icon(theme) == IF theme = "light" THEN "moon" ELSE "sun"

\* this.currentTheme === 'light' ? 'dark' : 'light'
ToggleTarget(current) == IF current = "light" THEN "dark" ELSE "light"

\* saveTheme: localStorage.setItem('theme', theme) inside try/catch
SaveTheme(theme, ls, fails) ==
    IF fails THEN [ls |-> ls, warned |-> TRUE] ELSE [ls |-> theme, warned |-> FALSE]

\* localStorage.setItem('theme-manual', 'true'), outside any try/catch
SetManual(manual, fails) ==
    IF fails THEN [manual |-> manual, threw |-> TRUE] ELSE [manual |-> TRUE, threw |-> FALSE]

\* if (!localStorage.getItem('theme-manual')): the change listener switches
AutoSwitches(listener, manual) == listener /\ ~manual

\* what one theme operation was and how it ended
ThemeOp(op, target, thrown, warned, event) ==
    [op |-> op, target |-> target, previous |-> currentTheme, threw |-> thrown,
     warned |-> warned, event |-> event, manualBefore |-> manualChange]

NoThemeOp ==
    [op |-> "none", target |-> "none", previous |-> "none", threw |-> FALSE,
     warned |-> FALSE, event |-> "none", manualBefore |-> FALSE]

\* setTheme(theme): currentTheme, applyTheme, saveTheme, updateButtonAppearance;
\* notifyThemeChange is recorded by the caller in themeOp.event
SetTheme(theme, button) ==
    /\ currentTheme' = theme
    /\ dataTheme' = theme
    /\ lsTheme' = SaveTheme(theme, lsTheme, storageFails).ls
    /\ buttonIcon' = IF button THEN Icon(theme) ELSE buttonIcon

\* addToggleAnimation
AddToggleAnimation ==
    IF toggleButton
    THEN switching' = TRUE /\ animTimers' = animTimers + 1
    ELSE UNCHANGED <<switching, animTimers>>

\* the state of the script's object literal, for what the browser holds
ThemeStart(ls, manual, fails, dark, toggle) ==
    /\ lsTheme = ls
    /\ lsManual = manual
    /\ storageFails = fails
    /\ systemDark = dark
    /\ toggleInPage = toggle
    /\ currentTheme = (IF ls = "none" THEN "light" ELSE ls)
    /\ themeReady = FALSE
    /\ toggleButton = FALSE
    /\ schemeListener = FALSE
    /\ dataTheme = "none"
    /\ buttonIcon = "markup"
    /\ themeOp = NoThemeOp
    /\ manualChange = FALSE
    /\ switching = FALSE
    /\ animTimers = 0

\* ThemeSwitcher.init()
ThemeInit ==
    /\ ~themeReady
    /\ themeReady' = TRUE
    /\ toggleButton' = toggleInPage
    /\ IF lsTheme = "none"
       THEN /\ schemeListener' = TRUE
            /\ IF systemDark
               THEN /\ SetTheme("dark", toggleInPage)
                    /\ themeOp' = ThemeOp("init", "dark", FALSE,
                                          SaveTheme("dark", lsTheme, storageFails).warned, "dark")
               ELSE /\ dataTheme' = currentTheme
                    /\ buttonIcon' = (IF toggleInPage THEN Icon(currentTheme) ELSE buttonIcon)
                    /\ themeOp' = ThemeOp("init", currentTheme, FALSE, FALSE, "none")
                    /\ UNCHANGED <<currentTheme, lsTheme>>
       ELSE /\ dataTheme' = currentTheme
            /\ buttonIcon' = (IF toggleInPage THEN Icon(currentTheme) ELSE buttonIcon)
            /\ themeOp' = ThemeOp("init", currentTheme, FALSE, FALSE, "none")
            /\ UNCHANGED <<currentTheme, lsTheme, schemeListener>>
    /\ UNCHANGED <<lsManual, storageFails, systemDark, toggleInPage, manualChange,
                   switching, animTimers>>
    /\ UNCHANGED <<contentVars, latexVars, loadVars, asyncVars, timerVars>>

\* a click on the toggle button, or Enter or Space on it: toggleTheme()
ClickToggle ==
    /\ themeReady /\ toggleButton
    /\ animTimers < MaxAnim
    /\ LET target == ToggleTarget(currentTheme)
       IN  /\ SetTheme(target, toggleButton)
           /\ themeOp' = ThemeOp("click", target, FALSE,
                                 SaveTheme(target, lsTheme, storageFails).warned, target)
    /\ AddToggleAnimation
    /\ manualChange' = TRUE
    /\ UNCHANGED <<lsManual, storageFails, systemDark, themeReady, toggleInPage,
                   toggleButton, schemeListener>>
    /\ UNCHANGED <<contentVars, latexVars, loadVars, asyncVars, timerVars>>

\* Ctrl/Cmd + Shift + T: toggleTheme(), then theme-manual is stored
Shortcut ==
    /\ themeReady
    /\ animTimers < MaxAnim
    /\ LET target == ToggleTarget(currentTheme)
           m == SetManual(lsManual, storageFails)
       IN  /\ SetTheme(target, toggleButton)
           /\ lsManual' = m.manual
           /\ themeOp' = ThemeOp("shortcut", target, m.threw,
                                 SaveTheme(target, lsTheme, storageFails).warned, target)
    /\ AddToggleAnimation
    /\ manualChange' = TRUE
    /\ UNCHANGED <<storageFails, systemDark, themeReady, toggleInPage, toggleButton,
                   schemeListener>>
    /\ UNCHANGED <<contentVars, latexVars, loadVars, asyncVars, timerVars>>

\* ThemeSwitcher.forceTheme(theme)
ForceTheme ==
    /\ themeReady
    /\ \E theme \in Themes \cup {"sepia"} :
        IF theme \in Themes
        THEN LET m == SetManual(lsManual, storageFails)
             IN  /\ SetTheme(theme, toggleButton)
                 /\ lsManual' = m.manual
                 /\ themeOp' = ThemeOp("forceTheme", theme, m.threw,
                                       SaveTheme(theme, lsTheme, storageFails).warned, theme)
                 /\ manualChange' = TRUE
        ELSE /\ themeOp' = ThemeOp("forceTheme", theme, FALSE, FALSE, "none")
             /\ UNCHANGED <<currentTheme, dataTheme, lsTheme, buttonIcon, lsManual, manualChange>>
    /\ UNCHANGED <<storageFails, systemDark, themeReady, toggleInPage, toggleButton,
                   schemeListener, switching, animTimers>>
    /\ UNCHANGED <<contentVars, latexVars, loadVars, asyncVars, timerVars>>

\* the system colour scheme changes: the 'change' listener of prefersDark
SystemSchemeChange ==
    /\ systemDark' = ~systemDark
    /\ LET target == IF systemDark' THEN "dark" ELSE "light"
       IN  IF AutoSwitches(schemeListener, lsManual)
           THEN /\ SetTheme(target, toggleButton)
                /\ themeOp' = ThemeOp("systemChange", target, FALSE,
                                      SaveTheme(target, lsTheme, storageFails).warned, target)
           ELSE /\ themeOp' = ThemeOp("systemChange", target, FALSE, FALSE, "none")
                /\ UNCHANGED <<currentTheme, dataTheme, lsTheme, buttonIcon>>
    /\ UNCHANGED <<lsManual, storageFails, themeReady, toggleInPage, toggleButton,
                   schemeListener, manualChange, switching, animTimers>>
    /\ UNCHANGED <<contentVars, latexVars, loadVars, asyncVars, timerVars>>

\* a 300 ms timer of addToggleAnimation fires
AnimationEnds ==
    /\ animTimers > 0
    /\ animTimers' = animTimers - 1
    /\ switching' = FALSE
    /\ UNCHANGED <<currentTheme, lsTheme, lsManual, storageFails, systemDark, themeReady,
                   toggleInPage, toggleButton, schemeListener, dataTheme, buttonIcon,
                   themeOp, manualChange>>
    /\ UNCHANGED <<contentVars, latexVars, loadVars, asyncVars, timerVars>>

----------------------------------------------------------------------------
(* Page load: the DOMContentLoaded listeners of the scripts *)

Scripts == {"notes-index", "updates", "highlighter"}

\* notesManager.init(), updatesManager.render(), startApp's body,
\* new EnhancedSyntaxHighlighter()
Routines == {"notesInit", "updatesRender", "startApp", "highlighter"}

\* the listeners a script registers when it is evaluated in state rs
ListenersOf(script, rs) ==
    CASE script = "notes-index" ->
             {"notesInit"} \cup (IF rs = "loading" THEN {"startApp"} ELSE {})
      [] script = "updates" -> {"updatesRender"}
      [] OTHER -> {"highlighter"}

\* the routines a script runs at once when it is evaluated in state rs
RunsAtOnce(script, rs) ==
    CASE script = "notes-index" -> IF rs # "loading" THEN {"startApp"} ELSE {}
      [] script = "updates" -> {}
      [] OTHER -> IF rs # "loading" THEN {"highlighter"} ELSE {}

\* startApp returns at once when App.isInitialized
Ran(routines, initialized) ==
    {r \in routines : r # "startApp" \/ ~initialized}

\* App.isInitialized after startApp: LaTeXRenderer is a class without a
\* static init, so LaTeXRenderer.init() throws into startApp's catch
InitializedAfter(ran, initialized, latex) ==
    IF "startApp" \in ran THEN ~latex ELSE initialized

LoadStart(latex) ==
    /\ readyState = "loading"
    /\ dclFired = FALSE
    /\ evaluated = {}
    /\ dclListeners = {}
    /\ runs = [r \in Routines |-> 0]
    /\ isInitialized = FALSE
    /\ latexClass = latex

\* a script is evaluated, whatever the document's state
EvaluateScript ==
    /\ \E script \in Scripts \ evaluated :
        LET ran == Ran(RunsAtOnce(script, readyState), isInitialized)
        IN  /\ evaluated' = evaluated \cup {script}
            /\ dclListeners' = dclListeners \cup ListenersOf(script, readyState)
            /\ runs' = [r \in Routines |-> runs[r] + (IF r \in ran THEN 1 ELSE 0)]
            /\ isInitialized' = InitializedAfter(ran, isInitialized, latexClass)
    /\ UNCHANGED <<readyState, dclFired, latexClass>>
    /\ UNCHANGED <<contentVars, latexVars, themeVars, asyncVars, timerVars>>

\* the parser reaches the end of the document
ParsingEnds ==
    /\ readyState = "loading"
    /\ readyState' = "interactive"
    /\ UNCHANGED <<dclFired, evaluated, dclListeners, runs, isInitialized, latexClass>>
    /\ UNCHANGED <<contentVars, latexVars, themeVars, asyncVars, timerVars>>

\* DOMContentLoaded is dispatched: the listeners registered so far run
FireDOMContentLoaded ==
    /\ readyState = "interactive" /\ ~dclFired
    /\ dclFired' = TRUE
    /\ LET ran == Ran(dclListeners, isInitialized)
       IN  /\ runs' = [r \in Routines |-> runs[r] + (IF r \in ran THEN 1 ELSE 0)]
           /\ isInitialized' = InitializedAfter(ran, isInitialized, latexClass)
    /\ UNCHANGED <<readyState, evaluated, dclListeners, latexClass>>
    /\ UNCHANGED <<contentVars, latexVars, themeVars, asyncVars, timerVars>>

\* the load event: the document is complete
WindowLoad ==
    /\ readyState = "interactive" /\ dclFired
    /\ readyState' = "complete"
    /\ UNCHANGED <<dclFired, evaluated, dclListeners, runs, isInitialized, latexClass>>
    /\ UNCHANGED <<contentVars, latexVars, themeVars, asyncVars, timerVars>>

----------------------------------------------------------------------------
(* Operations that resume after an await or a timer *)

CopyLabel == "Copy"
\* the feedback text, without its check mark
CopiedLabel == "Copied!"
SubmitLabel == "Send Message"
SendingLabel == "Sending..."

\* what the 2 s timer of copyCodeToClipboard writes back: originalText,
\* read after the await, in the try branch; 'Copy' in the catch branch
RestoreText(ok, text) == IF ok THEN text ELSE CopyLabel

AsyncStart ==
    /\ copyText = CopyLabel
    /\ copied = FALSE
    /\ clipboardPending = 0
    /\ copyTimers = <<>>
    /\ submitText = SubmitLabel
    /\ submitDisabled = FALSE
    /\ formWaits = <<>>
    /\ formMessage = 0
    /\ messageTimers = <<>>
    /\ nSubmits = 0

\* a click on .code-copy-btn: copyCodeToClipboard up to its await
CopyClick ==
    /\ clipboardPending + Len(copyTimers) < MaxCopies
    /\ clipboardPending' = clipboardPending + 1
    /\ UNCHANGED <<copyText, copied, copyTimers, submitText, submitDisabled, formWaits,
                   formMessage, messageTimers, nSubmits>>
    /\ UNCHANGED <<contentVars, latexVars, loadVars, themeVars, timerVars>>

\* navigator.clipboard.writeText settles: the rest of copyCodeToClipboard
ClipboardSettles ==
    /\ clipboardPending > 0
    /\ clipboardPending' = clipboardPending - 1
    /\ \E ok \in BOOLEAN :
        copyTimers' = Append(copyTimers, RestoreText(ok, copyText))
    /\ copyText' = CopiedLabel
    /\ copied' = TRUE
    /\ UNCHANGED <<submitText, submitDisabled, formWaits, formMessage, messageTimers, nSubmits>>
    /\ UNCHANGED <<contentVars, latexVars, loadVars, themeVars, timerVars>>

\* a 2 s timer of copyCodeToClipboard fires
CopyTimerFires ==
    /\ copyTimers # <<>>
    /\ copyText' = Head(copyTimers)
    /\ copied' = FALSE
    /\ copyTimers' = Tail(copyTimers)
    /\ UNCHANGED <<clipboardPending, submitText, submitDisabled, formWaits, formMessage,
                   messageTimers, nSubmits>>
    /\ UNCHANGED <<contentVars, latexVars, loadVars, themeVars, timerVars>>

\* the form is submitted (the browser submits through an enabled submit
\* button only): handleContactForm up to its await
SubmitForm ==
    /\ ~submitDisabled
    /\ nSubmits < MaxSubmits
    /\ nSubmits' = nSubmits + 1
    /\ formWaits' = Append(formWaits, submitText)
    /\ submitText' = SendingLabel
    /\ submitDisabled' = TRUE
    /\ UNCHANGED <<copyText, copied, clipboardPending, copyTimers, formMessage, messageTimers>>
    /\ UNCHANGED <<contentVars, latexVars, loadVars, themeVars, timerVars>>

\* the 1 s wait ends: showFormMessage, form.reset() and the finally block
SubmitResumes ==
    /\ formWaits # <<>>
    /\ LET message == nSubmits - Len(formWaits) + 1
       IN  /\ formMessage' = message
           /\ messageTimers' = Append(messageTimers, message)
    /\ submitText' = Head(formWaits)
    /\ submitDisabled' = FALSE
    /\ formWaits' = Tail(formWaits)
    /\ UNCHANGED <<copyText, copied, clipboardPending, copyTimers, nSubmits>>
    /\ UNCHANGED <<contentVars, latexVars, loadVars, themeVars, timerVars>>

\* a 5 s timer of showFormMessage fires: its message is removed if still attached
MessageTimerFires ==
    /\ messageTimers # <<>>
    /\ formMessage' = (IF formMessage = Head(messageTimers) THEN 0 ELSE formMessage)
    /\ messageTimers' = Tail(messageTimers)
    /\ UNCHANGED <<copyText, copied, clipboardPending, copyTimers, submitText,
                   submitDisabled, formWaits, nSubmits>>
    /\ UNCHANGED <<contentVars, latexVars, loadVars, themeVars, timerVars>>

----------------------------------------------------------------------------
(* Utils.debounce and Utils.throttle, with timers that fire when due *)

\* the arguments of the calls
DebounceArgs == {"a", "b"}

NoCall == [at |-> -1, arg |-> "none"]

\* mutant: clearTimeout cancels nothing
ClearTimeoutNoop(timers, id) == timers

\* clearTimeout(timeout)
ClearTimeout(timers, id) == {t \in timers : t.id # id}

\* mutant: the flag never blocks a call
ThrottleNeverBlocks(flag) == FALSE

\* if (!inThrottle) ... else the call is dropped
ThrottleBlocks(flag) == flag

\* a timer is due and has not fired yet
TimerDue == (\E t \in dTimers : t.due <= now) \/ (\E due \in tTimers : due <= now)

TimersStart ==
    /\ now = 0
    /\ dTimers = {}
    /\ timeout = 0
    /\ dCalls = 0
    /\ dLastCall = NoCall
    /\ dBursts = 0
    /\ dRunLog = <<>>
    /\ inThrottle = FALSE
    /\ tTimers = {}
    /\ tLog = <<>>
    /\ tRuns = 0

\* time passes; a due timer fires before the clock moves on
Tick ==
    /\ now < MaxTime
    /\ ~TimerDue
    /\ now' = now + 1
    /\ UNCHANGED <<dTimers, timeout, dCalls, dLastCall, dBursts, dRunLog,
                   inThrottle, tTimers, tLog, tRuns>>
    /\ UNCHANGED <<contentVars, latexVars, loadVars, themeVars, asyncVars>>

\* one call of the function Utils.debounce(func, wait) returned
DebouncedCall ==
    /\ dCalls < MaxDebounced
    /\ ~TimerDue
    /\ \E arg \in DebounceArgs :
        /\ dTimers' = ClearTimeout(dTimers, timeout)
                          \cup {[id |-> dCalls + 1, due |-> now + DebounceWait, arg |-> arg]}
        /\ dLastCall' = [at |-> now, arg |-> arg]
    /\ timeout' = dCalls + 1
    /\ dCalls' = dCalls + 1
    /\ dBursts' = (IF dCalls = 0 \/ now - dLastCall.at >= DebounceWait
                   THEN dBursts + 1 ELSE dBursts)
    /\ UNCHANGED <<now, dRunLog, inThrottle, tTimers, tLog, tRuns>>
    /\ UNCHANGED <<contentVars, latexVars, loadVars, themeVars, asyncVars>>

\* a timer of the debounced function fires: later()
DebounceTimerFires ==
    /\ \E t \in dTimers :
        /\ t.due <= now
        /\ dTimers' = ClearTimeout(dTimers \ {t}, timeout)
        /\ dRunLog' = Append(dRunLog, [at |-> now, arg |-> t.arg, lastCall |-> dLastCall])
    /\ UNCHANGED <<now, timeout, dCalls, dLastCall, dBursts, inThrottle, tTimers, tLog, tRuns>>
    /\ UNCHANGED <<contentVars, latexVars, loadVars, themeVars, asyncVars>>

\* one call of the function Utils.throttle(func, limit) returned
ThrottledCall ==
    /\ Len(tLog) < MaxThrottled
    /\ ~TimerDue
    /\ IF ThrottleBlocks(inThrottle)
       THEN /\ tLog' = Append(tLog, [at |-> now, ran |-> FALSE])
            /\ UNCHANGED <<inThrottle, tTimers, tRuns>>
       ELSE /\ tLog' = Append(tLog, [at |-> now, ran |-> TRUE])
            /\ tRuns' = tRuns + 1
            /\ inThrottle' = TRUE
            /\ tTimers' = tTimers \cup {now + ThrottleLimit}
    /\ UNCHANGED <<now, dTimers, timeout, dCalls, dLastCall, dBursts, dRunLog>>
    /\ UNCHANGED <<contentVars, latexVars, loadVars, themeVars, asyncVars>>

\* a timer of the throttled function fires: inThrottle = false
ThrottleTimerFires ==
    /\ \E due \in tTimers :
        /\ due <= now
        /\ tTimers' = tTimers \ {due}
    /\ inThrottle' = FALSE
    /\ UNCHANGED <<now, dTimers, timeout, dCalls, dLastCall, dBursts, dRunLog, tLog, tRuns>>
    /\ UNCHANGED <<contentVars, latexVars, loadVars, themeVars, asyncVars>>

----------------------------------------------------------------------------
(* The other scripts of the page, before any of them has acted *)

PageStart ==
    /\ LoadStart(TRUE)
    /\ ThemeStart("none", FALSE, FALSE, FALSE, TRUE)
    /\ AsyncStart
    /\ TimersStart

----------------------------------------------------------------------------
(* The page and the arguments of the calls *)

Selectors == {".areas-grid", ".notes-timeline", ".hero-subtitle", ".updates-grid"}

\* the pages the scripts run on: the notes index, the home page, a page with
\* every container, a page with none
Pages == { {".areas-grid", ".notes-timeline", ".hero-subtitle"},
           {".updates-grid", ".hero-subtitle"},
           Selectors,
           {} }

\* static children of .areas-grid in the page's markup
StaticCard == [id |-> "static-physics", classes |-> {"knowledge-area", "physics-area"}]
QuickActions == [id |-> "quick-actions", classes |-> {"knowledge-area", "quick-actions-area"}]
GridTitle == [id |-> "grid-title", classes |-> {"grid-title"}]

GridLayouts == { <<StaticCard>>,
                 <<GridTitle, StaticCard, QuickActions, GridTitle>> }

StaticTimeline == << [class |-> "note-card", static |-> TRUE] >>
StaticHero == "static subtitle"
StaticUpdates == << [class |-> "update-item", static |-> TRUE] >>

\* first arguments of addNote
AddNoteAreas == {"physics", "physics-topics", "chemistry"}

\* second arguments of addNote: a note, a note without a title, a topic
\* folder with two notes, a topic folder without its notes list
AddNoteData ==
    { [file |-> "optics.html", title |-> "Optics", featured |-> FALSE],
      [file |-> "untitled.html"],
      [topic |-> "fusion", name |-> "Fusion", notes |-> <<"tokamak.html", "stellarator.html">>],
      [topic |-> "drafts", name |-> "Drafts"] }

\* arguments of addUpdate: with a link, and without one and without a type
AddUpdateData ==
    { [date |-> "2025-08", type |-> "Note", title |-> "Optics notes", link |-> "pages/notes/physics/optics.html"],
      [date |-> "2025-08", title |-> "Site maintenance"] }

PageInit ==
    /\ doc \in Pages
    /\ areasGrid \in (IF ".areas-grid" \in doc THEN GridLayouts ELSE {<<>>})
    /\ timeline = (IF ".notes-timeline" \in doc THEN StaticTimeline ELSE <<>>)
    /\ heroSubtitle = (IF ".hero-subtitle" \in doc THEN StaticHero ELSE "")
    /\ updatesGrid = (IF ".updates-grid" \in doc THEN StaticUpdates ELSE <<>>)
    /\ console = <<>>
    /\ threw = FALSE
    /\ lastCall = "constructor"
    /\ repeated = FALSE
    /\ nAdds = 0

\* after new NotesIndexManager() and new UpdatesManager()
Init ==
    /\ realNotes = LiteralNotes
    /\ updates = LiteralUpdates
    /\ loadedNotes = LiteralNotes
    /\ loadedUpdates = LiteralUpdates
    /\ PageInit
    /\ LatexStart(TRUE)
    /\ PageStart

Called(op) ==
    /\ lastCall' = op
    /\ repeated' = (lastCall = op)

----------------------------------------------------------------------------
(* The calls *)

NotesInit ==
    LET e == InitEffect(doc, areasGrid, timeline, heroSubtitle, realNotes)
    IN  /\ Called("init")
        /\ areasGrid' = e.grid
        /\ timeline' = e.timeline
        /\ heroSubtitle' = e.hero
        /\ threw' = e.threw
        /\ console' = e.log
        /\ UNCHANGED <<realNotes, updates, loadedNotes, loadedUpdates, doc, updatesGrid, nAdds>>
        /\ UNCHANGED <<latexVars, pageVars>>

UpdateAreaCards ==
    LET e == AreaCardsEffect(doc, areasGrid, realNotes)
    IN  /\ Called("updateAreaCards")
        /\ areasGrid' = e.grid
        /\ threw' = e.threw
        /\ console' = e.log
        /\ UNCHANGED <<realNotes, updates, loadedNotes, loadedUpdates, doc, timeline,
                       heroSubtitle, updatesGrid, nAdds>>
        /\ UNCHANGED <<latexVars, pageVars>>

UpdateRecentNotes ==
    LET e == RecentNotesEffect(doc, timeline)
    IN  /\ Called("updateRecentNotes")
        /\ timeline' = e.timeline
        /\ threw' = FALSE
        /\ console' = e.log
        /\ UNCHANGED <<realNotes, updates, loadedNotes, loadedUpdates, doc, areasGrid,
                       heroSubtitle, updatesGrid, nAdds>>
        /\ UNCHANGED <<latexVars, pageVars>>

UpdateQuickStats ==
    LET e == QuickStatsEffect(doc, heroSubtitle, realNotes)
    IN  /\ Called("updateQuickStats")
        /\ heroSubtitle' = e.hero
        /\ threw' = FALSE
        /\ console' = e.log
        /\ UNCHANGED <<realNotes, updates, loadedNotes, loadedUpdates, doc, areasGrid,
                       timeline, updatesGrid, nAdds>>
        /\ UNCHANGED <<latexVars, pageVars>>

AddNote ==
    /\ nAdds < MaxAdds
    /\ \E area \in AddNoteAreas, noteData \in AddNoteData :
        LET e == AddNoteEffect(doc, areasGrid, heroSubtitle, realNotes, area, noteData)
        IN  /\ Called("addNote")
            /\ realNotes' = e.store
            /\ areasGrid' = e.grid
            /\ heroSubtitle' = e.hero
            /\ threw' = e.threw
            /\ console' = e.log
    /\ nAdds' = nAdds + 1
    /\ UNCHANGED <<updates, loadedNotes, loadedUpdates, doc, timeline, updatesGrid>>
    /\ UNCHANGED <<latexVars, pageVars>>

UpdatesRender ==
    LET e == UpdatesRenderEffect(doc, updatesGrid, updates)
    IN  /\ Called("render")
        /\ updatesGrid' = e.grid
        /\ threw' = FALSE
        /\ console' = e.log
        /\ UNCHANGED <<realNotes, updates, loadedNotes, loadedUpdates, doc, areasGrid,
                       timeline, heroSubtitle, nAdds>>
        /\ UNCHANGED <<latexVars, pageVars>>

\* updatesManager.addUpdate(update), while fewer than limit adds were made
AddUpdateUpTo(limit) ==
    /\ nAdds < limit
    /\ \E update \in AddUpdateData :
        LET e == UpdatesRenderEffect(doc, updatesGrid, Unshift(updates, update))
        IN  /\ Called("addUpdate")
            /\ updates' = Unshift(updates, update)
            /\ updatesGrid' = e.grid
            /\ threw' = FALSE
            /\ console' = e.log
    /\ nAdds' = nAdds + 1
    /\ UNCHANGED <<realNotes, loadedNotes, loadedUpdates, doc, areasGrid, timeline,
                   heroSubtitle>>
    /\ UNCHANGED <<latexVars, pageVars>>

AddUpdate == AddUpdateUpTo(MaxAdds)

vars == <<contentVars, latexVars, pageVars>>

Next ==
    \/ NotesInit
    \/ UpdateAreaCards
    \/ UpdateRecentNotes
    \/ UpdateQuickStats
    \/ AddNote
    \/ UpdatesRender
    \/ AddUpdate

Spec == Init /\ [][Next]_vars

----------------------------------------------------------------------------
(* Content stores: the literal of the constructors, edited *)

Classical == [file |-> "classical-mechanics.html", title |-> "Classical Mechanics", featured |-> TRUE]

FiveNotes ==
    [i \in 1..5 |-> [file |-> "note-" \o ToString(i) \o ".html",
                     title |-> "Note " \o ToString(i),
                     featured |-> (i = 2)]]

Fusion == [topic |-> "fusion", name |-> "Fusion", notes |-> <<"tokamak.html", "stellarator.html">>]
Drafts == [topic |-> "drafts", name |-> "Drafts"]

FiveTopics ==
    [i \in 1..5 |-> [topic |-> "topic-" \o ToString(i),
                     name |-> "Topic " \o ToString(i),
                     notes |-> [j \in 1..(i - 1) |-> "t" \o ToString(j) \o ".html"]]]

Absent == [has |-> FALSE, list |-> <<>>]
Holds(list) == [has |-> TRUE, list |-> list]

PhysicsChoices == {Absent, Holds(<<>>), Holds(<<Classical>>), Holds(LiteralNotes["physics"])}
TopicsChoices == {Absent, Holds(<<>>), Holds(<<Fusion>>), Holds(<<Drafts>>), Holds(FiveTopics)}
MathChoices == {Absent, Holds(FiveNotes)}

StoreOf(p, t, m) ==
    [k \in (IF p.has THEN {"physics"} ELSE {}) \cup
           (IF t.has THEN {"physics-topics"} ELSE {}) \cup
           (IF m.has THEN {"mathematics"} ELSE {}) |->
        CASE k = "physics" -> p.list
          [] k = "physics-topics" -> t.list
          [] OTHER -> m.list]

StoreSet == {StoreOf(p, t, m) : p \in PhysicsChoices, t \in TopicsChoices, m \in MathChoices}

UpdatesSet == { <<>>, LiteralUpdates, <<[title |-> "Untitled"], [date |-> "2025-04", type |-> "Note", title |-> "Old", link |-> ""]>> }

EmptyStore == StoreOf(Absent, Absent, Absent)
PhysicsOnlyStore == StoreOf(Holds(<<Classical>>), Absent, Absent)
ThreeAndFiveStore == StoreOf(Holds(LiteralNotes["physics"]), Absent, Holds(FiveNotes))

\* after the constructors, for an edited literal
InitStore ==
    /\ realNotes \in StoreSet
    /\ updates \in UpdatesSet
    /\ loadedNotes = realNotes
    /\ loadedUpdates = updates
    /\ PageInit
    /\ LatexStart(TRUE)
    /\ PageStart

NextRender ==
    \/ NotesInit
    \/ UpdateAreaCards
    \/ UpdateRecentNotes
    \/ UpdateQuickStats
    \/ UpdatesRender

SpecStore == InitStore /\ [][NextRender]_vars

----------------------------------------------------------------------------
(* The updates list: render and addUpdate on lists of every length *)

InitUpdates ==
    /\ realNotes = LiteralNotes
    /\ updates \in UpdatesSet
    /\ loadedNotes = LiteralNotes
    /\ loadedUpdates = updates
    /\ PageInit
    /\ LatexStart(TRUE)
    /\ PageStart

NextUpdates ==
    \/ UpdatesRender
    \/ AddUpdateUpTo(MaxUpdateAdds)

SpecUpdates == InitUpdates /\ [][NextUpdates]_vars

----------------------------------------------------------------------------
(* Math rendering start-up, on a page with none of the content containers *)

InitLatex ==
    /\ realNotes = LiteralNotes
    /\ updates = LiteralUpdates
    /\ loadedNotes = LiteralNotes
    /\ loadedUpdates = LiteralUpdates
    /\ doc = {}
    /\ areasGrid = <<>>
    /\ timeline = <<>>
    /\ heroSubtitle = ""
    /\ updatesGrid = <<>>
    /\ console = <<>>
    /\ threw = FALSE
    /\ lastCall = "constructor"
    /\ repeated = FALSE
    /\ nAdds = 0
    /\ \E cfg \in BOOLEAN : LatexStart(cfg)
    /\ PageStart

NextLatex ==
    \/ LoadKaTeX
    \/ LoadAutoRender
    \/ Construct
    \/ Poll
    \/ RenderMath
    \/ DOMContentLoaded
    \/ MathObserver

SpecLatex == InitLatex /\ [][NextLatex]_vars

\* the script is evaluated and every timer that is set fires
SpecLatexFair == SpecLatex /\ WF_vars(Construct) /\ WF_vars(Poll)

----------------------------------------------------------------------------
(* The specifications of the other scripts, on a page without content containers *)

ContentIdle ==
    /\ realNotes = LiteralNotes
    /\ updates = LiteralUpdates
    /\ loadedNotes = LiteralNotes
    /\ loadedUpdates = LiteralUpdates
    /\ doc = {}
    /\ areasGrid = <<>>
    /\ timeline = <<>>
    /\ heroSubtitle = ""
    /\ updatesGrid = <<>>
    /\ console = <<>>
    /\ threw = FALSE
    /\ lastCall = "constructor"
    /\ repeated = FALSE
    /\ nAdds = 0

InitLoad ==
    /\ ContentIdle
    /\ LatexStart(TRUE)
    /\ \E latex \in BOOLEAN : LoadStart(latex)
    /\ ThemeStart("none", FALSE, FALSE, FALSE, TRUE)
    /\ AsyncStart
    /\ TimersStart

NextLoad ==
    \/ EvaluateScript
    \/ ParsingEnds
    \/ FireDOMContentLoaded
    \/ WindowLoad

SpecLoad == InitLoad /\ [][NextLoad]_vars

\* what the browser holds when the theme script is evaluated
InitTheme ==
    /\ ContentIdle
    /\ LatexStart(TRUE)
    /\ LoadStart(TRUE)
    /\ \E ls \in Themes \cup {"none"}, manual, fails, dark, toggle \in BOOLEAN :
        /\ manual => ls # "none"
        /\ ThemeStart(ls, manual, fails, dark, toggle)
    /\ AsyncStart
    /\ TimersStart

NextTheme ==
    \/ ThemeInit
    \/ ClickToggle
    \/ Shortcut
    \/ ForceTheme
    \/ SystemSchemeChange
    \/ AnimationEnds

SpecTheme == InitTheme /\ [][NextTheme]_vars

InitAsync ==
    /\ ContentIdle
    /\ LatexStart(TRUE)
    /\ PageStart

NextAsync ==
    \/ ThemeInit
    \/ ClickToggle
    \/ AnimationEnds
    \/ CopyClick
    \/ ClipboardSettles
    \/ CopyTimerFires
    \/ SubmitForm
    \/ SubmitResumes
    \/ MessageTimerFires

SpecAsync == InitAsync /\ [][NextAsync]_vars

InitTimers ==
    /\ ContentIdle
    /\ LatexStart(TRUE)
    /\ PageStart

NextDebounce ==
    \/ DebouncedCall
    \/ DebounceTimerFires
    \/ Tick

SpecDebounce == InitTimers /\ [][NextDebounce]_vars

NextThrottle ==
    \/ ThrottledCall
    \/ ThrottleTimerFires
    \/ Tick

SpecThrottle == InitTimers /\ [][NextThrottle]_vars

----------------------------------------------------------------------------
(* Helpers of the properties *)

\* the keys createAreaCard reads as topic groupings: `${areaKey}-topics`
TopicKeys == {a \o "-topics" : a \in {"physics", "mathematics", "computer-science", "chemistry"}}

\* every record of a topic grouping holds its nested notes list
ValidStore(store) ==
    \A k \in DOMAIN store \cap TopicKeys : ~TopicNotesThrows(store[k])

\* the per-category record count: a topic grouping counts its topics' notes
RECURSIVE RecordCount(_, _)
RecordCount(store, keys) ==
    IF keys = {} THEN 0
    ELSE LET k == CHOOSE x \in keys : TRUE
         IN  (IF k \in TopicKeys THEN SumTopicNotes(store[k]) ELSE Len(store[k]))
             + RecordCount(store, keys \ {k})

RECURSIVE SumLen(_, _)
SumLen(store, keys) ==
    IF keys = {} THEN 0
    ELSE LET k == CHOOSE x \in keys : TRUE
         IN  Len(store[k]) + SumLen(store, keys \ {k})

InSeq(x, s) == \E i \in 1..Len(s) : s[i] = x

WarnCount(log) == Cardinality({i \in 1..Len(log) : log[i].level = "warn"})

\* the cards createAreaCard built, among the children of the grid
BuiltCards(grid, areaKey) ==
    SelectSeq(grid, LAMBDA n : "dataArea" \in DOMAIN n /\ n.dataArea = areaKey)

StatsCalls == {"updateQuickStats", "init", "addNote"}
CardCalls == {"updateAreaCards", "init", "addNote"}

----------------------------------------------------------------------------
(* Properties *)

\* C1: after every call that runs updateQuickStats on a valid store, the
\* total it shows and logs is the sum of the per-category record counts,
\* a topic grouping counting the notes nested in its topics.
C1_StatsCountNestedNotes ==
    (lastCall \in StatsCalls /\ ~threw /\ ValidStore(realNotes)) =>
        /\ InSeq(StatsLog(RecordCount(realNotes, DOMAIN realNotes)), console)
        /\ ".hero-subtitle" \in doc =>
               heroSubtitle = StatsText(RecordCount(realNotes, DOMAIN realNotes))

\* C2: a render call that follows a call of the same render method leaves
\* the children of its container as they were.
C2_RenderTwiceSameChildren ==
    [][ /\ (lastCall = "updateAreaCards" /\ lastCall' = "updateAreaCards") => areasGrid' = areasGrid
        /\ (lastCall = "updateRecentNotes" /\ lastCall' = "updateRecentNotes") => timeline' = timeline
        /\ (lastCall = "render" /\ lastCall' = "render") => updatesGrid' = updatesGrid ]_vars

C2_Witness ==
    /\ lastCall = "updateAreaCards"
    /\ repeated
    /\ Len(BuiltCards(areasGrid, "physics")) = 1
    /\ InSeq(QuickActions, areasGrid)
    /\ nAdds > 0

\* C3: a render call whose container is absent does not throw and writes
\* exactly one warning to the console.
C3_AbsentContainerWarnsOnce ==
    /\ (lastCall = "updateAreaCards" /\ ".areas-grid" \notin doc) =>
           (~threw /\ WarnCount(console) = 1)
    /\ (lastCall = "updateRecentNotes" /\ ".notes-timeline" \notin doc) =>
           (~threw /\ WarnCount(console) = 1)
    /\ (lastCall = "render" /\ ".updates-grid" \notin doc) =>
           (~threw /\ WarnCount(console) = 1)

\* C4 as stated: in every state the store is the constructors' literal.
C4_StoreIsLiteral ==
    realNotes = loadedNotes /\ updates = loadedUpdates

\* C4 amended: only addNote and addUpdate change the store; addNote appends
\* its record to realNotes[area] and leaves updates alone, addUpdate puts
\* its update first in updates and leaves realNotes alone.
C4_OnlyAddsChangeStore ==
    [][ /\ lastCall' \notin {"addNote", "addUpdate"} =>
               (realNotes' = realNotes /\ updates' = updates)
        /\ lastCall' = "addNote" =>
               /\ updates' = updates
               /\ \E area \in DOMAIN realNotes' :
                    /\ Len(realNotes'[area]) = Len(NotesOf(realNotes, area)) + 1
                    /\ SubSeq(realNotes'[area], 1, Len(realNotes'[area]) - 1) = NotesOf(realNotes, area)
                    /\ \A k \in DOMAIN realNotes' \ {area} :
                           k \in DOMAIN realNotes /\ realNotes'[k] = realNotes[k]
                    /\ DOMAIN realNotes \subseteq DOMAIN realNotes'
        /\ lastCall' = "addUpdate" =>
               /\ realNotes' = realNotes
               /\ Len(updates') = Len(updates) + 1
               /\ Tail(updates') = updates
        /\ (loadedNotes' = loadedNotes /\ loadedUpdates' = loadedUpdates) ]_vars

C4_Witness ==
    \/ lastCall = "addNote" /\ realNotes # loadedNotes /\ "chemistry" \in DOMAIN realNotes
    \/ lastCall = "addUpdate" /\ updates # loadedUpdates

\* C5: no call throws, whatever fields the records lack, and init renders
\* the cards, the timeline and the stats.
C5_MissingFieldNeverThrows ==
    /\ ~threw
    /\ lastCall = "init" =>
           /\ ".areas-grid" \in doc =>
                  \A i \in 1..Len(AreaKeys) : Len(BuiltCards(areasGrid, AreaKeys[i])) = 1
           /\ ".notes-timeline" \in doc => Len(timeline) = Len(RecentNotesData)
           /\ \E i \in 1..Len(console) : console[i] = StatsLog(QuickStatsTotal(realNotes))

\* an area with no records: no direct notes and no topic grouping
ZeroRecords(store, areaKey) ==
    NotesOf(store, areaKey) = <<>> /\ NotesOf(store, areaKey \o "-topics") = <<>>

\* C6: the card of an area with zero records is built without a throw and
\* holds no topic chip; render on an empty updates list leaves no item.
C6_ZeroRecordsNoItems ==
    /\ (lastCall \in CardCalls /\ ".areas-grid" \in doc) =>
           \A i \in 1..Len(AreaKeys) :
               ZeroRecords(realNotes, AreaKeys[i]) =>
                   /\ ~CreateAreaCardThrows(AreaKeys[i], realNotes)
                   /\ \A j \in 1..Len(areasGrid) :
                          ("dataArea" \in DOMAIN areasGrid[j] /\ areasGrid[j].dataArea = AreaKeys[i])
                              => areasGrid[j].chips = <<>>
                   /\ ~threw => Len(BuiltCards(areasGrid, AreaKeys[i])) = 1
    /\ (lastCall \in CardCalls /\ \A i \in 1..Len(AreaKeys) : ZeroRecords(realNotes, AreaKeys[i]))
           => ~threw
    /\ (lastCall = "render" /\ updates = <<>>) =>
           (~threw /\ (".updates-grid" \in doc => updatesGrid = <<>>))

C6_Witness ==
    /\ lastCall = "init"
    /\ ".areas-grid" \in doc
    /\ "physics" \in DOMAIN realNotes /\ realNotes["physics"] = <<>>
    /\ "mathematics" \in DOMAIN realNotes
    /\ Len(BuiltCards(areasGrid, "physics")) = 1
    /\ BuiltCards(areasGrid, "physics")[1].chips = <<>>
    /\ BuiltCards(areasGrid, "mathematics")[1].chips # <<>>

\* C7 as stated: the card of the one-record Physics category holds exactly
\* one link, to physics/classical-mechanics.html, reading Classical Mechanics.
C7_ExactlyOneLink ==
    (realNotes = PhysicsOnlyStore /\ lastCall \in CardCalls /\ ".areas-grid" \in doc) =>
        /\ Len(BuiltCards(areasGrid, "physics")) = 1
        /\ LET links == CardLinks(BuiltCards(areasGrid, "physics")[1])
           IN  /\ Len(links) = 1
               /\ links[1].href = "physics/classical-mechanics.html"
               /\ links[1].topicName = "Classical Mechanics"

\* C7 amended: that card holds exactly one topic-chip link, to
\* physics/classical-mechanics.html, whose topic name reads Classical
\* Mechanics and whose count reads 1, and one more link, the explore
\* button to physics/.
C7_OneChipAndExploreLink ==
    (realNotes = PhysicsOnlyStore /\ lastCall \in CardCalls /\ ".areas-grid" \in doc) =>
        /\ Len(BuiltCards(areasGrid, "physics")) = 1
        /\ LET card == BuiltCards(areasGrid, "physics")[1]
           IN  /\ Len(card.chips) = 1
               /\ card.chips[1].tag = "a"
               /\ card.chips[1].href = "physics/classical-mechanics.html"
               /\ card.chips[1].topicName = "Classical Mechanics"
               /\ card.chips[1].topicCount = 1
               /\ Len(CardLinks(card)) = 2
               /\ CardLinks(card)[2].class = "explore-btn"
               /\ CardLinks(card)[2].href = "physics/"

C7_Witness ==
    /\ realNotes = PhysicsOnlyStore
    /\ lastCall = "updateAreaCards"
    /\ Len(BuiltCards(areasGrid, "physics")) = 1

\* C8: on a store of direct-record categories only, updateQuickStats shows
\* and logs the sum of the category lengths: 8 for categories of 3 and 5
\* records, 0 for the empty store.
C8_DirectOnlySumOfLengths ==
    (lastCall \in StatsCalls /\ ~threw /\ DOMAIN realNotes \cap TopicKeys = {}) =>
        /\ InSeq(StatsLog(SumLen(realNotes, DOMAIN realNotes)), console)
        /\ ".hero-subtitle" \in doc => heroSubtitle = StatsText(SumLen(realNotes, DOMAIN realNotes))
        /\ realNotes = ThreeAndFiveStore =>
               InSeq(Log("Real stats: 8 notes, 3 areas"), console)
        /\ realNotes = EmptyStore =>
               InSeq(Log("Real stats: 0 notes, 3 areas"), console)

C8_Witness ==
    /\ realNotes = ThreeAndFiveStore
    /\ lastCall = "updateQuickStats"
    /\ heroSubtitle = StatsText(8)

\* the calls of renderMathInElement that LaTeXRenderer.renderMath made
RendererCalls == SelectSeq(renderCalls, LAMBDA c : c.by = "LaTeXRenderer")

BodyRendered == \E i \in 1..Len(RendererCalls) : RendererCalls[i].element = "document.body"

\* C9: once katex and renderMathInElement are both defined, however many
\* checks have failed before, LaTeXRenderer becomes ready and has rendered
\* document.body, given that the script is evaluated and set timers fire.
C9_LateLibraryEventuallyReady ==
    (katexDefined /\ rmieDefined) ~> (isKaTeXReady /\ BodyRendered)

C9_Witness ==
    /\ isKaTeXReady
    /\ BodyRendered
    /\ pollCount = MaxPolls
    /\ configLoaded /\ configInit = "unavailable"
    /\ Len(RendererCalls) > 1

RendererElements == [i \in 1..Len(RendererCalls) |-> RendererCalls[i].element]

\* C13: while LaTeXRenderer is not ready an element passed to renderMath is
\* appended to renderQueue and nothing is dropped from the queue; in the
\* step that makes it ready the queued elements are rendered once each, in
\* the order they were queued, before document.body, and the queue is
\* emptied; afterwards each renderMath renders one element and queues
\* none, so isKaTeXReady implies an empty renderQueue in every state.
C13_QueueFifoOnce ==
    /\ [](isKaTeXReady => renderQueue = <<>>)
    /\ [][ (~isKaTeXReady /\ ~isKaTeXReady') =>
               /\ RendererElements' = <<>>
               /\ \/ renderQueue' = renderQueue
                  \/ \E e \in Elements : renderQueue' = Append(renderQueue, e) ]_vars
    /\ [][ (~isKaTeXReady /\ isKaTeXReady') =>
               RendererElements' = renderQueue \o <<"document.body">> ]_vars
    /\ [][ isKaTeXReady =>
               /\ isKaTeXReady'
               /\ \/ RendererElements' = RendererElements
                  \/ \E e \in Elements : RendererElements' = Append(RendererElements, e) ]_vars

C13_Witness ==
    /\ isKaTeXReady
    /\ renderQueue = <<>>
    /\ Len(RendererElements) = 3
    /\ RendererElements[1] # RendererElements[2]
    /\ RendererElements[3] = "document.body"

\* C18: the card of every area lists at most 4 topic chips: its topic
\* folders first, in store order, then its direct notes in the slots left
\* up to 4, so that no direct note is listed when there are 4 or more
\* topic folders.
C18_AtMostFourChips ==
    (lastCall \in CardCalls /\ ".areas-grid" \in doc) =>
        \A i \in 1..Len(AreaKeys) :
            \A j \in 1..Len(BuiltCards(areasGrid, AreaKeys[i])) :
                LET chips == BuiltCards(areasGrid, AreaKeys[i])[j].chips
                    direct == NotesOf(realNotes, AreaKeys[i])
                    topics == NotesOf(realNotes, AreaKeys[i] \o "-topics")
                    nFolders == Min(Len(topics), 4)
                    nDirect == Min(Len(direct), 4 - nFolders)
                IN  /\ Len(chips) <= 4
                    /\ Len(chips) = nFolders + nDirect
                    /\ \A c \in 1..nFolders :
                           chips[c] = TopicChip(TopicEntry(AreaKeys[i], topics[c]), c - 1)
                    /\ \A c \in 1..nDirect :
                           chips[nFolders + c] =
                               TopicChip(NoteEntry(AreaKeys[i], direct[c]), nFolders + c - 1)

\* C19: after every call that runs updateAreaCards on a page with the
\* grid, the grid's area cards are exactly one card per area of
\* this.areas, in that order, all of them before the quick-actions
\* element when there is one, and the children that are not area cards
\* (the quick-actions node among them) are the ones of the page's markup,
\* in their order.
C19_OneCardPerAreaKeepsOthers ==
    (lastCall \in CardCalls /\ ".areas-grid" \in doc) =>
        LET cards == SelectSeq(areasGrid, IsAreaCard)
            others == SelectSeq(areasGrid, LAMBDA n : ~IsAreaCard(n))
        IN  /\ Len(cards) = Len(AreaKeys)
            /\ \A i \in 1..Len(cards) :
                   "dataArea" \in DOMAIN cards[i] /\ cards[i].dataArea = AreaKeys[i]
            /\ \A i, j \in 1..Len(areasGrid) :
                   (IsAreaCard(areasGrid[i]) /\ IsQuickActions(areasGrid[j])) => i < j
            /\ others \in { RemoveCards(layout) : layout \in GridLayouts }
            /\ (\E j \in 1..Len(areasGrid) : IsQuickActions(areasGrid[j])) =>
                   Len(SelectSeq(areasGrid, LAMBDA n : n = QuickActions)) = 1

\* C20: on a page with the updates container, after render or addUpdate
\* the container holds min(4, n) items, item i built from the i-th update
\* of the list; the list is the added updates followed by the loaded
\* ones, and every addUpdate puts its update first in the list and in
\* the container, so the items are the most recently added, newest first.
C20_NewestFourFirst ==
    /\ []( (lastCall \in {"render", "addUpdate"} /\ ".updates-grid" \in doc) =>
              /\ Len(updatesGrid) = Min(4, Len(updates))
              /\ \A i \in 1..Len(updatesGrid) : updatesGrid[i] = UpdateItem(updates[i]) )
    /\ []( /\ Len(updates) = nAdds + Len(loadedUpdates)
           /\ SubSeq(updates, nAdds + 1, Len(updates)) = loadedUpdates )
    /\ [][ nAdds' # nAdds =>
               /\ lastCall' = "addUpdate"
               /\ Head(updates') \in AddUpdateData
               /\ Tail(updates') = updates
               /\ ".updates-grid" \in doc => updatesGrid'[1] = UpdateItem(Head(updates')) ]_vars

C20_Witness ==
    /\ lastCall = "addUpdate"
    /\ ".updates-grid" \in doc
    /\ nAdds >= 3
    /\ Len(loadedUpdates) = 2
    /\ Len(updatesGrid) = 4
    /\ updatesGrid[1] # updatesGrid[2]
    /\ updatesGrid[4] = UpdateItem(loadedUpdates[1])

\* C11: in every page load the initial render of the notes index
\* (NotesIndexManager.init) and of the updates list (UpdatesManager.render)
\* runs at most once, and it has run exactly once when the page-load
\* signal has passed and the script is evaluated, whatever the document's
\* ready state was when the script was evaluated.
C11_InitialRenderOncePerLoad ==
    /\ runs["notesInit"] <= 1
    /\ runs["updatesRender"] <= 1
    /\ (dclFired /\ "notes-index" \in evaluated) => runs["notesInit"] = 1
    /\ (dclFired /\ "updates" \in evaluated) => runs["updatesRender"] = 1

\* C12: no operation writes, after an await or a timer, state derived from
\* what it read before another callback could run in between: the text a
\* suspended copy or submission will write back is the label the button
\* has at rest, the feedback state of an operation (copied, theme-switching)
\* lasts as long as one of its timers is pending, and once no operation is
\* suspended every button is back at its label, enabled and without
\* feedback class.
C12_NoInterleavedReadWrite ==
    /\ \A i \in 1..Len(copyTimers) : copyTimers[i] = CopyLabel
    /\ \A i \in 1..Len(formWaits) : formWaits[i] = SubmitLabel
    /\ copyTimers # <<>> => copied
    /\ animTimers > 0 => switching
    /\ (clipboardPending = 0 /\ copyTimers = <<>>) => (copyText = CopyLabel /\ ~copied)
    /\ formWaits = <<>> => (submitText = SubmitLabel /\ ~submitDisabled)
    /\ animTimers = 0 => ~switching

\* C14: a system colour-scheme change that comes after the user has changed
\* the theme by a manual route (the toggle button, the keyboard shortcut,
\* forceTheme) leaves the current theme as it was.
C14_ManualChangeStopsAutoSwitch ==
    (themeOp.op = "systemChange" /\ themeOp.manualBefore) =>
        currentTheme = themeOp.previous

\* C15: when localStorage.setItem throws, a theme operation that sets a
\* theme (toggleTheme from the button or the shortcut, forceTheme, and
\* setTheme from init or the system change) does not throw, the new theme
\* is current, applied to the document and the button, the themechange
\* event is dispatched and the failure is a logged warning.
C15_StorageFailureOnlyWarns ==
    (storageFails /\ themeOp.event # "none") =>
        /\ ~themeOp.threw
        /\ themeOp.warned
        /\ currentTheme = themeOp.target
        /\ dataTheme = themeOp.target
        /\ toggleButton => buttonIcon = Icon(themeOp.target)
        /\ themeOp.event = themeOp.target

\* C16: under debounce func runs exactly once for each burst of calls that
\* are less than wait apart: each run comes wait after the call made last
\* before it, with that call's argument, so never while a newer call is
\* within its wait period; while the last call is within its wait period
\* every burst but the open one has had its run, and once the wait has
\* passed every burst has.
C16_OnceAfterEachBurst ==
    /\ \A i \in 1..Len(dRunLog) :
           /\ dRunLog[i].at = dRunLog[i].lastCall.at + DebounceWait
           /\ dRunLog[i].arg = dRunLog[i].lastCall.arg
    /\ \A i, j \in 1..Len(dRunLog) : i < j => dRunLog[i].at < dRunLog[j].at
    /\ (dCalls > 0 /\ now < dLastCall.at + DebounceWait) => Len(dRunLog) = dBursts - 1
    /\ (dCalls > 0 /\ now = dLastCall.at + DebounceWait) => Len(dRunLog) \in {dBursts - 1, dBursts}
    /\ (dCalls = 0 \/ now > dLastCall.at + DebounceWait) => Len(dRunLog) = dBursts

C16_Witness ==
    /\ dCalls = 3
    /\ dBursts = 2
    /\ Len(dRunLog) = 2
    /\ dRunLog[1].arg # dRunLog[2].arg
    /\ dRunLog[1].at > DebounceWait

\* the calls of the throttled function on which func ran
Executed == {i \in 1..Len(tLog) : tLog[i].ran}

\* C17: under throttle func runs in a call, at once, exactly when no
\* executed call lies less than limit before it: a call within limit of an
\* executed call is dropped, the first call after the window runs func
\* again, and func never runs outside a call (no trailing run).
C17_OncePerWindowNoTrailing ==
    /\ \A i \in 1..Len(tLog) :
           tLog[i].ran <=>
               \A j \in 1..(i - 1) : tLog[j].ran => tLog[i].at - tLog[j].at >= ThrottleLimit
    /\ tRuns = Cardinality(Executed)

C17_Witness ==
    /\ Len(tLog) = 3
    /\ tLog[1].ran /\ ~tLog[2].ran /\ tLog[3].ran
    /\ tLog[2].at > tLog[1].at
    /\ tLog[3].at = tLog[1].at + ThrottleLimit
    /\ now > tLog[3].at + ThrottleLimit
    /\ tRuns = 2

====
